---- MODULE Spec2Model ----
(***************************************************************************)
(* Incident log: LIME explanation of a severity classifier                 *)
(* (incident_logger.py) and aggregation of the explanations into           *)
(* root-cause buckets (summarize_root_causes.py).                          *)
(*                                                                         *)
(* A Python str is a sequence of one-character strings.  A dict is a       *)
(* sequence of [k, v] records in insertion order (Python dicts keep        *)
(* insertion order, and sorted() is stable, so that order is observable).  *)
(* A LIME weight is a float; it is modelled as an integer number of        *)
(* weight units, which keeps abs(), += and the comparisons of sorted().    *)
(***************************************************************************)
EXTENDS Integers, Sequences, FiniteSets, TLC

\* ------------------------------------------------------------------ bounds
MaxIncidents == 2      \* incidents in incident_log.json
MaxFeatures  == 1      \* features in one incident's explanation
MaxParts     == 3      \* pieces a token of SpecMatch is put together from

\* ------------------------------------------------------------- str helpers
UpperCase ==
    << "A","B","C","D","E","F","G","H","I","J","K","L","M",
       "N","O","P","Q","R","S","T","U","V","W","X","Y","Z" >>

LowerCase ==
    << "a","b","c","d","e","f","g","h","i","j","k","l","m",
       "n","o","p","q","r","s","t","u","v","w","x","y","z" >>

Whitespace == {" "}

\* str.lower() on one character
LowerChar(c) ==
    IF \E i \in 1..Len(UpperCase) : UpperCase[i] = c
    THEN LowerCase[CHOOSE i \in 1..Len(UpperCase) : UpperCase[i] = c]
    ELSE c

\* str.lower()
Lower(s) == [i \in 1..Len(s) |-> LowerChar(s[i])]

\* str.strip(): drops leading and trailing whitespace
Strip(s) ==
    LET keep == {i \in 1..Len(s) : s[i] \notin Whitespace}
    IN  IF keep = {} THEN << >>
        ELSE LET lo == CHOOSE i \in keep : \A j \in keep : i <= j
                 hi == CHOOSE i \in keep : \A j \in keep : j <= i
             IN  SubSeq(s, lo, hi)

\* the substring at position i, of the length of kw, is kw
OccursAt(t, kw, i) == \A j \in 1..Len(kw) : t[i + j - 1] = kw[j]

\* Contains(t, kw) is the Python expression `kw in t`
Contains(t, kw) == \E i \in 1..(Len(t) - Len(kw) + 1) : OccursAt(t, kw, i)

\* str.replace("_", ""): the underscores deleted, the parts joined
DeleteUnderscore(s) == SelectSeq(s, LAMBDA c : c # "_")

\* str.replace("_", " ")
ReplaceUnderscore(s) == [i \in 1..Len(s) |-> IF s[i] = "_" THEN " " ELSE s[i]]

\* str.split(): the maximal runs of non-whitespace characters, left to right
RECURSIVE SplitFrom(_, _, _)
SplitFrom(s, i, cur) ==
    IF i > Len(s)
    THEN IF cur = << >> THEN << >> ELSE << cur >>
    ELSE IF s[i] \in Whitespace
         THEN IF cur = << >> THEN SplitFrom(s, i + 1, << >>)
              ELSE << cur >> \o SplitFrom(s, i + 1, << >>)
         ELSE SplitFrom(s, i + 1, Append(cur, s[i]))

Split(s) == SplitFrom(s, 1, << >>)

\* ---------------------------------------------------------------- taxonomy
RootCauseNames ==
    << "Slip/Trip (wet floor)",
       "Falling objects",
       "Cuts/Sharp object",
       "Chemical spill",
       "Equipment / Forklift",
       "Fire/Overheat",
       "Maintenance/Fall",
       "Electrical",
       "Struck by/against" >>

ROOT_CAUSE_KEYWORDS ==
    ("Slip/Trip (wet floor)" :> <<
          <<"s","l","i","p">>,
          <<"s","l","i","p","p","e","d">>,
          <<"w","e","t">>,
          <<"f","l","o","o","r">>,
          <<"p","i","p","e">> >>)
    @@ ("Falling objects" :> <<
          <<"b","o","x">>,
          <<"s","h","e","l","f">>,
          <<"f","e","l","l">>,
          <<"f","a","l","l">>,
          <<"f","o","o","t">>,
          <<"h","i","t","t","i","n","g">> >>)
    @@ ("Cuts/Sharp object" :> <<
          <<"c","u","t">>,
          <<"c","u","t","t","e","r">>,
          <<"b","o","x"," ","c","u","t","t","e","r">>,
          <<"h","a","n","d">> >>)
    @@ ("Chemical spill" :> <<
          <<"c","h","e","m","i","c","a","l">>,
          <<"s","p","i","l","l">>,
          <<"s","t","o","r","a","g","e">> >>)
    @@ ("Equipment / Forklift" :> <<
          <<"f","o","r","k","l","i","f","t">>,
          <<"p","a","l","l","e","t">>,
          <<"c","o","l","l","i","d","e","d">>,
          <<"k","n","o","c","k","e","d">> >>)
    @@ ("Fire/Overheat" :> <<
          <<"f","i","r","e">>,
          <<"o","v","e","r","h","e","a","t","e","d">>,
          <<"a","l","a","r","m">>,
          <<"t","r","i","g","g","e","r","e","d">> >>)
    @@ ("Maintenance/Fall" :> <<
          <<"l","a","d","d","e","r">>,
          <<"m","a","i","n","t","e","n","a","n","c","e">>,
          <<"t","a","s","k">> >>)
    @@ ("Electrical" :> <<
          <<"w","i","r","i","n","g">>,
          <<"e","l","e","c","t","r","i","c","a","l">>,
          <<"s","p","a","r","k">> >>)
    @@ ("Struck by/against" :> <<
          <<"h","e","a","d">>,
          <<"b","e","a","m">>,
          <<"s","t","r","u","c","k">> >>)

\* the set literal of line 51
STOP_WORDS ==
    { <<"a","n","d">>, <<"t","h","e">>, <<"o","f">>, <<"i","n">>,
      <<"t","o">>, <<"b","y">>, <<"w","i","t","h">>, <<"f","r","o","m">> }

Other == "Other"

\* -------------------------------------------------------- match_root_cause
\* the inner loop without its `break`: rc is appended once per keyword
RECURSIVE KeywordHitsNoBreak(_, _, _)
KeywordHitsNoBreak(t, kws, k) ==
    IF k > Len(kws) THEN << >>
    ELSE IF Contains(t, kws[k]) THEN << k >> \o KeywordHitsNoBreak(t, kws, k + 1)
         ELSE KeywordHitsNoBreak(t, kws, k + 1)

\* the inner loop over a bucket's keywords: it appends rc once and breaks,
\* so what it leaves in `matched` is whether some keyword occurs in t
RECURSIVE KeywordHits(_, _, _)
KeywordHits(t, kws, k) ==
    IF k > Len(kws) THEN << >>
    ELSE IF Contains(t, kws[k]) THEN << k >>
         ELSE KeywordHits(t, kws, k + 1)

RECURSIVE MatchFrom(_, _)
MatchFrom(t, r) ==
    IF r > Len(RootCauseNames) THEN << >>
    ELSE LET rc   == RootCauseNames[r]
             hits == KeywordHits(t, ROOT_CAUSE_KEYWORDS[rc], 1)
         IN  [i \in 1..Len(hits) |-> rc] \o MatchFrom(t, r + 1)

match_root_cause(token) == MatchFrom(Lower(token), 1)

\* ------------------------------------------------- defaultdict operations
\* tables created with every bucket of the taxonomy at 0
PrefilledTable ==
    [r \in 1..Len(RootCauseNames) |-> [k |-> RootCauseNames[r], v |-> 0]]

\* defaultdict(float) / defaultdict(int) right after construction
EmptyTable == << >>

Keys(d) == {d[i].k : i \in 1..Len(d)}

\* d[key], with the default 0 of defaultdict(float) and defaultdict(int)
Get(d, key) ==
    IF key \in Keys(d)
    THEN d[CHOOSE i \in 1..Len(d) : d[i].k = key].v
    ELSE 0

\* d[key] = amount in place of d[key] += amount
AddToOverwrite(d, key, amount) ==
    IF key \in Keys(d)
    THEN [i \in 1..Len(d) |->
            IF d[i].k = key THEN [k |-> key, v |-> amount] ELSE d[i]]
    ELSE Append(d, [k |-> key, v |-> amount])

\* d[key] += amount: a new key goes to the end of the insertion order
AddTo(d, key, amount) ==
    IF key \in Keys(d)
    THEN [i \in 1..Len(d) |->
            IF d[i].k = key THEN [k |-> key, v |-> d[i].v + amount] ELSE d[i]]
    ELSE Append(d, [k |-> key, v |-> amount])

\* ------------------------------------------- the aggregation loop of main
\* token = feat.get("feature", "").strip()
TokenOf(f) == Strip(f.feature)

\* abs(...) of line 49
Abs(w) == IF w < 0 THEN -w ELSE w

\* the weight taken with its sign
WeightOfSigned(f) == f.weight

\* weight = abs(feat.get("weight", 0.0))
WeightOf(f) == Abs(f.weight)

\* the condition of `continue` on line 51
IsSkipped(token) == Len(token) = 0 \/ Lower(token) \in STOP_WORDS

\* subtoks = [t for t in token.replace("_", " ").split() if len(t) > 2]
Subtoks(token) ==
    SelectSeq(Split(ReplaceUnderscore(token)), LAMBDA t : Len(t) > 2)

\* for st in subtoks: m2 = match_root_cause(st); if m2: matched = m2; break
RECURSIVE FirstSubMatch(_, _)
FirstSubMatch(subtoks, i) ==
    IF i > Len(subtoks) THEN << >>
    ELSE LET m2 == match_root_cause(subtoks[i])
         IN  IF m2 # << >> THEN m2 ELSE FirstSubMatch(subtoks, i + 1)

\* `matched` when line 63 is reached
Matched(token) ==
    LET matched == match_root_cause(token)
    IN  IF matched = << >> THEN FirstSubMatch(Subtoks(token), 1) ELSE matched

\* for rc in matched: d[rc] += amount
RECURSIVE AddAll(_, _, _, _)
AddAll(d, matched, i, amount) ==
    IF i > Len(matched) THEN d
    ELSE AddAll(AddTo(d, matched[i], amount), matched, i + 1, amount)

\* lines 63-69 with the `else` lost: "Other" is credited for every feature
CreditAlsoOther(d, matched, amount) ==
    AddTo(AddAll(d, matched, 1, amount), Other, amount)

\* lines 63-69 on one table: `amount` is weight for rc_scores, 1 for rc_counts
Credit(d, matched, amount) ==
    IF matched # << >> THEN AddAll(d, matched, 1, amount)
    ELSE AddTo(d, Other, amount)

\* sorted(..., key=lambda x: x[1], reverse=True): stable, so items of equal
\* score keep their order in the dict
RECURSIVE InsertSorted(_, _, _)
InsertSorted(out, x, i) ==
    IF i > Len(out) THEN Append(out, x)
    ELSE IF out[i].v < x.v
         THEN SubSeq(out, 1, i - 1) \o << x >> \o SubSeq(out, i, Len(out))
         ELSE InsertSorted(out, x, i + 1)

RECURSIVE SortFrom(_, _, _)
SortFrom(d, i, out) ==
    IF i > Len(d) THEN out
    ELSE SortFrom(d, i + 1, InsertSorted(out, d[i], 1))

SortedItems(d) == SortFrom(d, 1, << >>)

\* lines 72-75: the final bucket sequence, each bucket with score and count
Report(t) ==
    LET its == SortedItems(t.scores)
    IN  [i \in 1..Len(its) |->
            [name |-> its[i].k, score |-> its[i].v, count |-> Get(t.counts, its[i].k)]]

\* ------------------------------------------------------------------ inputs
\* feature strings an explanation can carry
SampleTokens ==
    { <<"b","o","x"," ","c","u","t","t","e","r">>,
      <<"L","a","d","d","e","r">>,
      <<"x","y","z","_","a","b","c">>,
      <<"T","h","e">>,
      <<"t","h","e",".">>,
      <<" ">> }

\* signed LIME weights, in weight units
Weights == {-2, 0, 1}

Features == [feature : SampleTokens, weight : Weights]

\* lines 48-61 depend on the feature string alone: they are evaluated once
\* for each string an explanation can carry
TokenInfo ==
    [tok \in SampleTokens |->
        LET token == TokenOf([feature |-> tok])
        IN  [skipped |-> IsSkipped(token),
             matched |-> IF IsSkipped(token) THEN << >> ELSE Matched(token)]]

\* one iteration of `for feat in explanation`, on t = [scores, counts]
ScanFeat(t, f) ==
    LET info == TokenInfo[f.feature]
    IN  IF info.skipped THEN t
        ELSE [scores |-> Credit(t.scores, info.matched, WeightOf(f)),
              counts |-> Credit(t.counts, info.matched, 1)]

\* ------------------------------------------------ state of the aggregator
VARIABLES
    pc,         \* "scan" inside the loops of main, "done" after line 75
    nInc,       \* incidents taken from the list so far
    left,       \* features of the current explanation not yet scanned
    feat,       \* the loop variable feat (NoFeat before the first feature)
    rc_scores,  \* defaultdict(float)
    rc_counts,  \* defaultdict(int)
    report      \* labels, scores and counts of lines 73-75, zipped

aggVars == << pc, nInc, left, feat, rc_scores, rc_counts, report >>

NoFeat == [feature |-> << >>, weight |-> 0, unbound |-> TRUE]

AggInit ==
    /\ pc = "scan"
    /\ nInc = 0
    /\ left = 0
    /\ feat = NoFeat
    /\ rc_scores = EmptyTable
    /\ rc_counts = EmptyTable
    /\ report = << >>

\* `for inc in incidents`: the next incident and the length of its explanation
NextIncident ==
    /\ pc = "scan"
    /\ left = 0
    /\ nInc < MaxIncidents
    /\ nInc' = nInc + 1
    /\ \E n \in 0..MaxFeatures : left' = n
    /\ UNCHANGED << pc, feat, rc_scores, rc_counts, report >>

\* `for feat in explanation`: one iteration, lines 47-69
ScanFeature ==
    /\ pc = "scan"
    /\ left > 0
    /\ \E f \in Features :
          LET t == ScanFeat([scores |-> rc_scores, counts |-> rc_counts], f)
          IN  /\ feat' = f
              /\ rc_scores' = t.scores
              /\ rc_counts' = t.counts
    /\ left' = left - 1
    /\ UNCHANGED << pc, nInc, report >>

\* the incident list is exhausted: lines 71-75
Finish ==
    /\ pc = "scan"
    /\ left = 0
    /\ report' = Report([scores |-> rc_scores, counts |-> rc_counts])
    /\ pc' = "done"
    /\ UNCHANGED << nInc, left, feat, rc_scores, rc_counts >>

\* ----------------------------------------------- the loops as one fold
\* `for feat in explanation` over a whole explanation
RECURSIVE ScanExplanation(_, _, _)
ScanExplanation(t, explanation, j) ==
    IF j > Len(explanation) THEN t
    ELSE ScanExplanation(ScanFeat(t, explanation[j]), explanation, j + 1)

\* `for inc in incidents` over a whole incident list
RECURSIVE ScanIncidents(_, _, _)
ScanIncidents(t, incs, i) ==
    IF i > Len(incs) THEN t
    ELSE ScanIncidents(ScanExplanation(t, incs[i], 1), incs, i + 1)

\* lines 41-75: from the incident list to the final bucket sequence
Aggregate(incs) ==
    Report(ScanIncidents([scores |-> EmptyTable, counts |-> EmptyTable], incs, 1))

\* features of the incident lists aggregated as a whole
BatchFeatures ==
    { [feature |-> <<"b","o","x"," ","c","u","t","t","e","r">>, weight |-> 1],
      [feature |-> <<"L","a","d","d","e","r">>, weight |-> 1],
      [feature |-> <<"L","a","d","d","e","r">>, weight |-> -2],
      [feature |-> <<"x","y","z","_","a","b","c">>, weight |-> 1],
      [feature |-> <<"T","h","e">>, weight |-> -2],
      [feature |-> <<"t","h","e",".">>, weight |-> 0] }

SeqsUpTo(S, n) == UNION {[1..m -> S] : m \in 0..n}

\* the explanations of incident_log.json, one per incident
BatchInputs == SeqsUpTo(SeqsUpTo(BatchFeatures, MaxFeatures), MaxIncidents)

VARIABLES
    bIncidents,  \* incidents = json.load(fh), each incident by its explanation
    bPc,         \* "start" before line 41, "done" after line 75
    bReport      \* labels, scores and counts of lines 73-75, zipped

batchVars == << bIncidents, bPc, bReport >>

BatchInit ==
    /\ bIncidents \in BatchInputs
    /\ bPc = "start"
    /\ bReport = << >>

BatchIdle ==
    /\ bIncidents = << >>
    /\ bPc = "idle"
    /\ bReport = << >>

\* lines 41-75 of main, run to the end
RunBatch ==
    /\ bPc = "start"
    /\ bReport' = Aggregate(bIncidents)
    /\ bPc' = "done"
    /\ UNCHANGED bIncidents

AggIdle ==
    /\ pc = "idle"
    /\ nInc = 0
    /\ left = 0
    /\ feat = NoFeat
    /\ rc_scores = EmptyTable
    /\ rc_counts = EmptyTable
    /\ report = << >>

\* --------------------------------- lines 53-61 of main, one call at a time
\* parts the feature strings of SpecMatch are put together from
Pieces ==
    { <<"b","o","x">>, <<"c","u","t">>, <<"t","e","r">>, <<"F","i">>,
      <<"r","e">>, <<"x","y","z">>, <<" ">>, <<"_">> }

RECURSIVE Concat(_, _)
Concat(parts, i) ==
    IF i > Len(parts) THEN << >> ELSE parts[i] \o Concat(parts, i + 1)

PieceTokens == {Concat(ps, 1) : ps \in SeqsUpTo(Pieces, MaxParts)}

VARIABLES
    mFeature,   \* feat["feature"]
    mPc,        \* "start", "sub" (the loop of line 57), "credit" (line 63), "skipped"
    mWhole,     \* what match_root_cause(token) returned on line 53
    mMatched,   \* the variable matched
    mSubtoks,   \* the variable subtoks
    mIdx,       \* position of the loop of line 57 in subtoks
    mM2         \* the variable m2

matchVars == << mFeature, mPc, mWhole, mMatched, mSubtoks, mIdx, mM2 >>

MatchInit ==
    /\ mFeature \in PieceTokens
    /\ mPc = "start"
    /\ mWhole = << >>
    /\ mMatched = << >>
    /\ mSubtoks = << >>
    /\ mIdx = 0
    /\ mM2 = << >>

MatchIdle ==
    /\ mFeature = << >>
    /\ mPc = "idle"
    /\ mWhole = << >>
    /\ mMatched = << >>
    /\ mSubtoks = << >>
    /\ mIdx = 0
    /\ mM2 = << >>

\* line 51: the feature is skipped
SkipToken ==
    /\ mPc = "start"
    /\ IsSkipped(TokenOf([feature |-> mFeature]))
    /\ mPc' = "skipped"
    /\ UNCHANGED << mFeature, mWhole, mMatched, mSubtoks, mIdx, mM2 >>

\* lines 53-56: the whole token is matched; without a match it is split
MatchWhole ==
    /\ mPc = "start"
    /\ LET token   == TokenOf([feature |-> mFeature])
           matched == match_root_cause(token)
       IN  /\ ~IsSkipped(token)
           /\ mWhole' = matched
           /\ mMatched' = matched
           /\ IF matched = << >>
              THEN /\ mSubtoks' = Subtoks(token)
                   /\ mIdx' = 1
                   /\ mPc' = "sub"
              ELSE /\ mPc' = "credit"
                   /\ UNCHANGED << mSubtoks, mIdx >>
    /\ UNCHANGED << mFeature, mM2 >>

\* lines 57-61: one iteration of `for st in subtoks`
MatchSub ==
    /\ mPc = "sub"
    /\ mIdx <= Len(mSubtoks)
    /\ LET m2 == match_root_cause(mSubtoks[mIdx])
       IN  /\ mM2' = m2
           /\ IF m2 # << >>
              THEN /\ mMatched' = m2
                   /\ mPc' = "credit"
                   /\ UNCHANGED mIdx
              ELSE /\ mIdx' = mIdx + 1
                   /\ UNCHANGED << mMatched, mPc >>
    /\ UNCHANGED << mFeature, mWhole, mSubtoks >>

\* the loop of line 57 ends without a break
EndSub ==
    /\ mPc = "sub"
    /\ mIdx > Len(mSubtoks)
    /\ mPc' = "credit"
    /\ UNCHANGED << mFeature, mWhole, mMatched, mSubtoks, mIdx, mM2 >>

\* ------------------------------------------------------ explain_with_lime
\* the labels label_severity can return, in the order of classes_ (sorted)
SeverityLabels == << "critical", "major", "minor" >>

\* classes_ of a classifier fitted on at least two of the labels
ClassLists ==
    { << "critical", "major" >>, << "critical", "minor" >>,
      << "major", "minor" >>, SeverityLabels }

\* list.index, counted from 0
IndexOf(classes, label) ==
    (CHOOSE i \in 1..Len(classes) : classes[i] = label) - 1

\* explain_instance is called without labels= and without top_labels=, so
\* LIME explains its default labels=(1,): local_exp has the one key 1
ExplainedLabels == {1}

\* the local importance of the one feature, one value per class
Importances == {-1, 1}

VARIABLES
    lClasses,     \* final_clf.classes_
    lImportance,  \* class index -> the importance LIME fits for that class
    lLocalExp,    \* exp.local_exp: explained label index -> importance
    lPred,        \* pred
    lLabelIndex,  \* label_index (-1 for None)
    lExplanation, \* explanation: the weight handed back
    lPc           \* "start", "explained", "predicted", "indexed", "done"

limeVars ==
    << lClasses, lImportance, lLocalExp, lPred, lLabelIndex, lExplanation, lPc >>

NoIndex == -1

LimeInit ==
    /\ lClasses \in ClassLists
    /\ lImportance \in [0..(Len(lClasses) - 1) -> Importances]
    /\ lLocalExp = << >>
    /\ lPred = "unset"
    /\ lLabelIndex = NoIndex
    /\ lExplanation = << >>
    /\ lPc = "start"

LimeIdle ==
    /\ lClasses = << >>
    /\ lImportance = << >>
    /\ lLocalExp = << >>
    /\ lPred = "unset"
    /\ lLabelIndex = NoIndex
    /\ lExplanation = << >>
    /\ lPc = "idle"

\* line 86: exp = explainer.explain_instance(text, prob_fn, num_features=...)
ExplainInstance ==
    /\ lPc = "start"
    /\ lLocalExp' = [l \in ExplainedLabels |-> lImportance[l]]
    /\ lPc' = "explained"
    /\ UNCHANGED << lClasses, lImportance, lPred, lLabelIndex, lExplanation >>

\* line 89: pred = pipeline.predict([text])[0], one of classes_
Predict ==
    /\ lPc = "explained"
    /\ \E i \in 1..Len(lClasses) : lPred' = lClasses[i]
    /\ lPc' = "predicted"
    /\ UNCHANGED << lClasses, lImportance, lLocalExp, lLabelIndex, lExplanation >>

\* lines 92-103: the index of pred in classes_, or else the smallest key of
\* local_exp (0 when it has none)
LabelIndexFor(classes, pred, local_exp) ==
    LET index     == IndexOf(classes, pred)
        available == DOMAIN local_exp
    IN  IF index \in available THEN index
        ELSE IF available # {}
             THEN CHOOSE a \in available : \A b \in available : a <= b
             ELSE 0

PickLabel ==
    /\ lPc = "predicted"
    /\ lLabelIndex' = LabelIndexFor(lClasses, lPred, lLocalExp)
    /\ lPc' = "indexed"
    /\ UNCHANGED << lClasses, lImportance, lLocalExp, lPred, lExplanation >>

\* lines 105-108: feature_list = exp.as_list(label=label_index)
AsList ==
    /\ lPc = "indexed"
    /\ lLabelIndex \in DOMAIN lLocalExp
    /\ lExplanation' = << lLocalExp[lLabelIndex] >>
    /\ lPc' = "done"
    /\ UNCHANGED << lClasses, lImportance, lLocalExp, lPred, lLabelIndex >>

\* --------------------------------------------------------- specifications
vars == << aggVars, batchVars, matchVars, limeVars >>

\* summarize_root_causes.main, feature by feature
Init == AggInit /\ BatchIdle /\ MatchIdle /\ LimeIdle

Next ==
    \/ NextIncident /\ UNCHANGED << batchVars, matchVars, limeVars >>
    \/ ScanFeature /\ UNCHANGED << batchVars, matchVars, limeVars >>
    \/ Finish /\ UNCHANGED << batchVars, matchVars, limeVars >>

Spec == Init /\ [][Next]_vars

\* summarize_root_causes.main on a whole incident list
InitBatch == AggIdle /\ BatchInit /\ MatchIdle /\ LimeIdle

NextBatch == RunBatch /\ UNCHANGED << aggVars, matchVars, limeVars >>

SpecBatch == InitBatch /\ [][NextBatch]_vars

\* the matching of one feature string
InitMatch == AggIdle /\ BatchIdle /\ MatchInit /\ LimeIdle

NextMatch ==
    \/ SkipToken /\ UNCHANGED << aggVars, batchVars, limeVars >>
    \/ MatchWhole /\ UNCHANGED << aggVars, batchVars, limeVars >>
    \/ MatchSub /\ UNCHANGED << aggVars, batchVars, limeVars >>
    \/ EndSub /\ UNCHANGED << aggVars, batchVars, limeVars >>

SpecMatch == InitMatch /\ [][NextMatch]_vars

\* incident_logger.explain_with_lime on one text
InitLime == AggIdle /\ BatchIdle /\ MatchIdle /\ LimeInit

NextLime ==
    \/ ExplainInstance /\ UNCHANGED << aggVars, batchVars, matchVars >>
    \/ Predict /\ UNCHANGED << aggVars, batchVars, matchVars >>
    \/ PickLabel /\ UNCHANGED << aggVars, batchVars, matchVars >>
    \/ AsList /\ UNCHANGED << aggVars, batchVars, matchVars >>

SpecLime == InitLime /\ [][NextLime]_vars

\* =================================================== claims on the scan
\* a step of the inner loop: only ScanFeature decreases `left`
ScanStep == pc = "scan" /\ left' = left - 1

RootCauseSet == {RootCauseNames[r] : r \in 1..Len(RootCauseNames)}

AllBuckets == RootCauseSet \cup {Other}

\* the buckets with a keyword that is a substring of the lower-cased
\* feature string, for each string an explanation can carry
KeywordBuckets ==
    [tok \in SampleTokens |->
        {rc \in RootCauseSet :
            \E k \in 1..Len(ROOT_CAUSE_KEYWORDS[rc]) :
                Contains(Lower(tok), ROOT_CAUSE_KEYWORDS[rc][k])}]

\* the code's `continue` of line 51 is taken for f
SkippedByCode(f) == TokenInfo[f.feature].skipped

\* bucket rc received exactly one credit of f between the two states
CreditedOnce(rc, f) ==
    /\ Get(rc_scores', rc) = Get(rc_scores, rc) + Abs(f.weight)
    /\ Get(rc_counts', rc) = Get(rc_counts, rc) + 1

\* bucket rc received nothing between the two states
Untouched(rc) ==
    /\ Get(rc_scores', rc) = Get(rc_scores, rc)
    /\ Get(rc_counts', rc) = Get(rc_counts, rc)
    /\ (rc \in Keys(rc_scores')) = (rc \in Keys(rc_scores))
    /\ (rc \in Keys(rc_counts')) = (rc \in Keys(rc_counts))

\* C3: for every scanned feature that is not skipped, each taxonomy bucket
\* with at least one keyword contained in the lower-cased token receives
\* exactly the feature's absolute weight and exactly +1 count (once, also
\* when several of its keywords match), and a taxonomy bucket without such
\* a keyword receives nothing.
C3_MatchingBucketsCreditedOnce ==
    [][ (ScanStep /\ ~SkippedByCode(feat')) =>
            \A rc \in RootCauseSet :
                IF rc \in KeywordBuckets[feat'.feature]
                THEN CreditedOnce(rc, feat')
                ELSE Untouched(rc) ]_vars

\* "box cutter" holds three keywords of Cuts/Sharp object and one of
\* Falling objects; it has been scanned once with weight -2
C3_Witness ==
    /\ feat = [feature |-> <<"b","o","x"," ","c","u","t","t","e","r">>, weight |-> -2]
    /\ Get(rc_scores, "Cuts/Sharp object") = 2
    /\ Get(rc_counts, "Cuts/Sharp object") = 1
    /\ Get(rc_scores, "Falling objects") = 2
    /\ Get(rc_counts, "Falling objects") = 1

\* Python's order on the bucket names (code points, left to right)
NamesInLexOrder ==
    << "Chemical spill", "Cuts/Sharp object", "Electrical",
       "Equipment / Forklift", "Falling objects", "Fire/Overheat",
       "Maintenance/Fall", "Other", "Slip/Trip (wet floor)",
       "Struck by/against" >>

LexRank(name) == CHOOSE i \in 1..Len(NamesInLexOrder) : NamesInLexOrder[i] = name

\* C4: the final bucket sequence is sorted by descending aggregated score,
\* and buckets of equal score appear in ascending lexical order of names.
C4_SortedWithLexicalTies ==
    pc = "done" =>
        \A i, j \in 1..Len(report) :
            i < j =>
                \/ report[i].score > report[j].score
                \/ /\ report[i].score = report[j].score
                   /\ LexRank(report[i].name) < LexRank(report[j].name)

\* punctuation a normalization would strip
Punctuation == {".", ",", ";", ":", "!", "?"}

\* lower-casing and stripping punctuation (and blanks) from both ends
Normalize(s) ==
    LET low  == Lower(s)
        keep == {i \in 1..Len(low) : low[i] \notin Punctuation \cup Whitespace}
    IN  IF keep = {} THEN << >>
        ELSE SubSeq(low, CHOOSE i \in keep : \A j \in keep : i <= j,
                         CHOOSE i \in keep : \A j \in keep : j <= i)

NormalizedStopWord == [tok \in SampleTokens |-> Normalize(tok) \in STOP_WORDS]

\* C6: a feature whose token, lower-cased and stripped of punctuation, is a
\* stop word is skipped: scanning it leaves every bucket's score and count
\* unchanged, "Other" included.
C6_StopWordsSkipped ==
    [][ (ScanStep /\ NormalizedStopWord[feat'.feature]) =>
            (rc_scores' = rc_scores /\ rc_counts' = rc_counts) ]_vars

\* C7: a scanned, non-skipped feature adds its absolute weight and +1 count
\* to "Other" if and only if its token matches no bucket of the taxonomy;
\* a feature matching a named bucket leaves "Other" alone.
C7_OtherIffNoMatch ==
    [][ (ScanStep /\ ~SkippedByCode(feat')) =>
            IF KeywordBuckets[feat'.feature] = {}
            THEN CreditedOnce(Other, feat')
            ELSE Untouched(Other) ]_vars

\* both cases have happened: "xyz_abc" went to Other in an earlier step, and
\* "Ladder", scanned last, left Other as it was
C7_Witness ==
    /\ feat = [feature |-> <<"L","a","d","d","e","r">>, weight |-> 1]
    /\ Get(rc_scores, Other) = 2
    /\ Get(rc_counts, Other) = 1
    /\ Get(rc_counts, "Maintenance/Fall") = 1

\* C8: every bucket's aggregated score is non-negative in every state of
\* the scan, and no scan step decreases a bucket's score or count, whatever
\* the sign of the feature's weight.
C8_NonNegativeMonotone ==
    /\ [](\A i \in 1..Len(rc_scores) : rc_scores[i].v >= 0)
    /\ [][ \A rc \in AllBuckets :
              /\ Get(rc_scores', rc) >= Get(rc_scores, rc)
              /\ Get(rc_counts', rc) >= Get(rc_counts, rc) ]_vars

\* a feature of negative weight has been credited on top of an earlier one
C8_Witness ==
    /\ feat = [feature |-> <<"L","a","d","d","e","r">>, weight |-> -2]
    /\ Get(rc_scores, "Maintenance/Fall") = 3
    /\ Get(rc_counts, "Maintenance/Fall") = 2

\* C10: the score table and the count table always have the same bucket
\* names, every bucket present has count >= 1, and the final sequence holds
\* exactly the buckets of the tables: a bucket nothing was credited to is
\* absent, not present with score 0 and count 0.
C10_SameKeysPositiveCounts ==
    /\ Keys(rc_scores) = Keys(rc_counts)
    /\ \A i \in 1..Len(rc_counts) : rc_counts[i].v >= 1
    /\ pc = "done" =>
          /\ {report[i].name : i \in 1..Len(report)} = Keys(rc_scores)
          /\ Len(report) = Len(rc_scores)
          /\ \A i \in 1..Len(report) : report[i].count >= 1

\* the report of a run whose only credited bucket is Maintenance/Fall:
\* neither Other nor any other taxonomy bucket is in it
C10_Witness ==
    /\ pc = "done"
    /\ nInc = 2
    /\ Len(report) = 1
    /\ report[1].name = "Maintenance/Fall"
    /\ report[1].count = 2

\* ================================================== claims on the batch
RECURSIVE Flatten(_, _)
Flatten(incs, i) ==
    IF i > Len(incs) THEN << >> ELSE incs[i] \o Flatten(incs, i + 1)

\* all features of all explanations, in file order
AllFeatures(incs) == Flatten(incs, 1)

\* the sum of a sequence of numbers
RECURSIVE SumFrom(_, _)
SumFrom(nums, i) ==
    IF i > Len(nums) THEN 0 ELSE nums[i] + SumFrom(nums, i + 1)

TotalScore(rep) == SumFrom([i \in 1..Len(rep) |-> rep[i].score], 1)

\* what one feature adds to the total: nothing when it is skipped, else its
\* absolute weight once per matching taxonomy bucket, or once for "Other"
CreditedWeight(f) ==
    IF SkippedByCode(f) THEN 0
    ELSE IF KeywordBuckets[f.feature] = {} THEN Abs(f.weight)
         ELSE Abs(f.weight) * Cardinality(KeywordBuckets[f.feature])

\* C2 as stated: after the scan, the sum of the aggregated scores over all
\* buckets equals the sum of the absolute weights of every feature of every
\* explanation.
C2_TotalEqualsSumOfAbsWeights ==
    bPc = "done" =>
        LET fs == AllFeatures(bIncidents)
        IN  TotalScore(bReport) = SumFrom([i \in 1..Len(fs) |-> Abs(fs[i].weight)], 1)

\* C2 as amended: after the scan, the sum of the aggregated scores over all
\* buckets equals the sum, over the features that are not skipped, of the
\* absolute weight times the number of buckets credited for the feature
\* (its matching taxonomy buckets, or "Other" alone when none matches).
C2_TotalEqualsCreditedWeights ==
    bPc = "done" =>
        LET fs == AllFeatures(bIncidents)
        IN  TotalScore(bReport) = SumFrom([i \in 1..Len(fs) |-> CreditedWeight(fs[i])], 1)

\* a finished batch with a feature credited to two buckets and a skipped
\* stop word of non-zero weight
C2_Witness ==
    /\ bPc = "done"
    /\ bIncidents =
          << << [feature |-> <<"b","o","x"," ","c","u","t","t","e","r">>, weight |-> 1] >>,
             << [feature |-> <<"T","h","e">>, weight |-> -2] >> >>
    /\ TotalScore(bReport) = 2

\* the rearrangements of one explanation
FeatureOrders(e) ==
    {[i \in 1..Len(e) |-> e[p[i]]] : p \in Permutations(1..Len(e))}

RECURSIVE SeqProduct(_, _)
SeqProduct(sets, i) ==
    IF i > Len(sets) THEN {<< >>}
    ELSE {<< x >> \o r : x \in sets[i], r \in SeqProduct(sets, i + 1)}

\* the incident list permuted, the features of each explanation permuted
Reorderings(incs) ==
    UNION { SeqProduct([i \in 1..Len(incs) |-> FeatureOrders(incs[p[i]])], 1) :
              p \in Permutations(1..Len(incs)) }

\* C5: the result does not depend on processing order: every permutation of
\* the incident list, and of the features inside each explanation, gives
\* the identical ordered bucket sequence with the same scores and counts.
C5_OrderIndependent ==
    bPc = "done" =>
        \A q \in Reorderings(bIncidents) : Aggregate(q) = bReport

\* ================================================ claims on the matching
\* C9: the sub-token fallback never changes the outcome: when the match of
\* the whole token is empty, the match of each of its sub-tokens is empty
\* too, so the buckets credited are those of the whole-token match.
C9_FallbackNeverMatches ==
    /\ mM2 = << >>
    /\ mMatched = mWhole

\* a token without a match whose sub-tokens (two or more) were all tried
C9_Witness ==
    /\ mPc = "credit"
    /\ mWhole = << >>
    /\ Len(mSubtoks) >= 2
    /\ mIdx > Len(mSubtoks)

\* ===================================================== claims on the LIME
\* C1: the feature weights explain_with_lime returns are those of the class
\* the classifier predicts: the label index passed to exp.as_list is the
\* index of the predicted label in classes_, whichever index that is.
C1_LabelIndexIsPredictedClass ==
    lPc \in {"indexed", "done"} => lLabelIndex = IndexOf(lClasses, lPred)

====
